---- MODULE Spec2Model ----
(***************************************************************************)
(* A model of the core of whir-p3: the single-round sumcheck prover        *)
(* (src/src/sumcheck/prover_single.rs), the Fiat-Shamir domain separator   *)
(* extensions (src/src/fs_utils.rs), the radix-2 evaluation domain         *)
(* (src/src/domain/radix2.rs) and the parameter derivation of WhirConfig   *)
(* (src/src/whir/parameters.rs).                                           *)
(*                                                                         *)
(* The code is generic over a field F.  The model instantiates F with the  *)
(* prime field of FieldOrder elements; every field operation is computed   *)
(* modulo FieldOrder.                                                      *)
(***************************************************************************)
EXTENDS Integers, Sequences, FiniteSets, TLC

VARIABLES
    pc,               \* "start" | "ready" | "panicked" : life cycle of the SumcheckSingle
    coeffs,           \* the CoefficientList handed to SumcheckSingle::new (input, kept for reference)
    evaluation_of_p,  \* SumcheckSingle.evaluation_of_p
    weights,          \* SumcheckSingle.weights
    sum,              \* SumcheckSingle.sum
    call,             \* the last operation called, its arguments and its result
    honest,           \* every claimed value absorbed so far is the polynomial's evaluation at its point
    absorbed,         \* number of constraints absorbed so far (statement and add_new_equality)
    adds,             \* number of add_new_equality calls so far
    stdout,           \* what the process has printed so far
    pattern,          \* DomainSeparator: the protocol id followed by the entries appended so far
    sepCall,          \* the last builder operation applied to the separator and its argument
    domain,           \* the Option<Radix2EvaluationDomain> returned by the last Radix2EvaluationDomain::new
    domCall,          \* the num_coeffs argument of that call (-1 before the first call)
    config,           \* the WhirConfig, once WhirConfig::new has returned one
    cfgCall           \* the last WhirConfig function called, its arguments and its result

vars == <<pc, coeffs, evaluation_of_p, weights, sum, call, honest, absorbed, adds, stdout,
          pattern, sepCall, domain, domCall, config, cfgCall>>

sumcheckVars == <<pc, coeffs, evaluation_of_p, weights, sum, call, honest, absorbed, adds, stdout>>
separatorVars == <<pattern, sepCall>>
domainVars == <<domain, domCall>>
configVars == <<config, cfgCall>>

(***************************************************************************)
(* Bounds of the model.                                                    *)
(***************************************************************************)
MaxVars == 2          \* polynomials and statements have 0..MaxVars variables
MaxConstraints == 2   \* constraints in the Statement handed to new
MaxBatch == 2         \* length of each slice handed to add_new_equality
MaxAdds == 1          \* add_new_equality calls per SumcheckSingle
MaxPrints == 2        \* compute_sumcheck_polynomial calls per SumcheckSingle
MaxPattern == 6       \* entries appended to a DomainSeparator
MaxSamples == 2       \* num_samples handed to add_ood
MaxCoeffs == 130      \* num_coeffs handed to Radix2EvaluationDomain::new
MaxSecurity == 40     \* security levels handed to queries and ood_samples range over 0..MaxSecurity
MaxRate == 4          \* log_inv_rate handed to queries and ood_samples
MaxStartRate == 2     \* starting_log_inv_rate handed to WhirConfig::new
MaxNumVariables == 7  \* num_variables handed to WhirConfig::new and ood_samples
MaxRounds == 2        \* RoundConfig entries a test writes into round_parameters
ReduceVars == 3       \* variables of the polynomials whose reduction is scheduled

(***************************************************************************)
(* The field F.                                                            *)
(***************************************************************************)
FieldOrder == 5
F == 0..(FieldOrder - 1)
ZERO == 0
ONE == 1
FAdd(a, b) == (a + b) % FieldOrder
FSub(a, b) == (a - b + FieldOrder) % FieldOrder
FMul(a, b) == (a * b) % FieldOrder
FDouble(a) == FAdd(a, a)

RECURSIVE Pow2(_)
Pow2(n) == IF n = 0 THEN 1 ELSE 2 * Pow2(n - 1)

\* log2 of a table length (the length is a power of two)
RECURSIVE Log2(_)
Log2(len) == IF len <= 1 THEN 0 ELSE 1 + Log2(len \div 2)

\* Variable j (1 = first coordinate) of the 0-based hypercube index b in k
\* variables: the first coordinate is the most significant bit.
Bit(b, j, k) == (b \div Pow2(k - j)) % 2

Zeros(len) == [i \in 1..len |-> ZERO]

Min(a, b) == IF a <= b THEN a ELSE b

(***************************************************************************)
(* Multilinear polynomials: CoefficientList, EvaluationsList,              *)
(* MultilinearPoint.  A table of length 2^k is a sequence; its entry for   *)
(* the 0-based hypercube index b is at position b + 1.                     *)
(***************************************************************************)
num_variables(table) == Log2(Len(table))

\* The monomial of coefficient index i evaluated at point z.
RECURSIVE Monomial(_, _, _)
Monomial(i, z, j) ==
    IF j > Len(z) THEN ONE
    ELSE FMul(IF Bit(i, j, Len(z)) = 1 THEN z[j] ELSE ONE, Monomial(i, z, j + 1))

\* The value at point z of the polynomial with coefficient list c.
RECURSIVE EvalFrom(_, _, _)
EvalFrom(c, z, i) ==
    IF i >= Len(c) THEN ZERO
    ELSE FAdd(FMul(c[i + 1], Monomial(i, z, 1)), EvalFrom(c, z, i + 1))

evaluate(c, z) == EvalFrom(c, z, 0)

\* One butterfly stage of the coefficient-to-evaluation (wavelet) transform:
\* every entry whose index has bit h set gains the entry h places before it.
WaveletStage(v, h) ==
    [i \in 1..Len(v) |->
        IF ((i - 1) \div h) % 2 = 1 THEN FAdd(v[i], v[i - h]) ELSE v[i]]

RECURSIVE WaveletFrom(_, _)
WaveletFrom(v, h) == IF h >= Len(v) THEN v ELSE WaveletFrom(WaveletStage(v, h), 2 * h)

\* EvaluationsList::from(CoefficientList)
from_coeffs(c) == WaveletFrom(c, 1)

\* eq_z(b) = prod_j (b_j * z_j + (1 - b_j) * (1 - z_j)) at the hypercube index b
RECURSIVE EqFrom(_, _, _)
EqFrom(z, b, j) ==
    IF j > Len(z) THEN ONE
    ELSE FMul(IF Bit(b, j, Len(z)) = 1 THEN z[j] ELSE FSub(ONE, z[j]), EqFrom(z, b, j + 1))

\* eval_eq(point, out, scalar): out[b] += scalar * eq_point(b) for every b.
\* The table `out` has 2^Len(point) entries.
eval_eq(point, out, scalar) ==
    [i \in 1..Len(out) |-> FAdd(out[i], FMul(scalar, EqFrom(point, i - 1, 1)))]

(***************************************************************************)
(* Statement: num_variables and a list of (Weights::evaluation(point),     *)
(* claimed value) constraints.                                             *)
(***************************************************************************)
\* Statement::combine: every constraint, scaled by the coefficient, is
\* accumulated into a zero weight table over the statement's hypercube and
\* into a zero sum.
RECURSIVE CombineFrom(_, _, _, _)
CombineFrom(cs, gamma, acc, i) ==
    IF i > Len(cs) THEN acc
    ELSE CombineFrom(cs, gamma,
                     [weights |-> eval_eq(cs[i].point, acc.weights, gamma),
                      sum |-> FAdd(acc.sum, FMul(gamma, cs[i].value))],
                     i + 1)

combine(statement, gamma) ==
    CombineFrom(statement.constraints, gamma,
                [weights |-> Zeros(Pow2(statement.num_variables)), sum |-> ZERO], 1)

(***************************************************************************)
(* SumcheckSingle.  A value of the struct is a record                      *)
(* [evaluation_of_p, weights, sum].                                        *)
(***************************************************************************)
\* Mutants of SumcheckSingle::new: the two tables stored in each other's
\* field; the combined sum dropped; the coefficients stored unconverted.
SumcheckSingle_new_swapped(c, statement, combination_randomness) ==
    LET combined == combine(statement, combination_randomness)
    IN  [evaluation_of_p |-> combined.weights,
         weights |-> from_coeffs(c),
         sum |-> combined.sum]

SumcheckSingle_new_nosum(c, statement, combination_randomness) ==
    LET combined == combine(statement, combination_randomness)
    IN  [evaluation_of_p |-> from_coeffs(c),
         weights |-> combined.weights,
         sum |-> ZERO]

SumcheckSingle_new_raw(c, statement, combination_randomness) ==
    LET combined == combine(statement, combination_randomness)
    IN  [evaluation_of_p |-> c,
         weights |-> combined.weights,
         sum |-> combined.sum]

SumcheckSingle_new(c, statement, combination_randomness) ==
    LET combined == combine(statement, combination_randomness)
    IN  [evaluation_of_p |-> from_coeffs(c),
         weights |-> combined.weights,
         sum |-> combined.sum]

\* for (point, rand) in points.iter().zip(combination_randomness)
RECURSIVE AbsorbPoints(_, _, _, _)
AbsorbPoints(w, points, rands, i) ==
    IF i > Min(Len(points), Len(rands)) THEN w
    ELSE AbsorbPoints(eval_eq(points[i], w, rands[i]), points, rands, i + 1)

\* for (rand, eval) in combination_randomness.iter().zip(evaluations.iter())
RECURSIVE AbsorbEvals(_, _, _, _)
AbsorbEvals(s, rands, evals, i) ==
    IF i > Min(Len(rands), Len(evals)) THEN s
    ELSE AbsorbEvals(FAdd(s, FMul(rands[i], evals[i])), rands, evals, i + 1)

\* Mutants of add_new_equality: the sum gains eval instead of rand * eval;
\* the lengths are compared only after the two loops have run.
RECURSIVE AbsorbEvalsUnscaled(_, _, _, _)
AbsorbEvalsUnscaled(s, rands, evals, i) ==
    IF i > Min(Len(rands), Len(evals)) THEN s
    ELSE AbsorbEvalsUnscaled(FAdd(s, evals[i]), rands, evals, i + 1)

add_new_equality_unscaled(self, points, rands, evals) ==
    IF Len(rands) # Len(points) \/ Len(rands) # Len(evals)
    THEN [panic |-> TRUE, self |-> self]
    ELSE [panic |-> FALSE,
          self |-> [self EXCEPT !.weights = AbsorbPoints(@, points, rands, 1),
                                !.sum = AbsorbEvalsUnscaled(@, rands, evals, 1)]]

add_new_equality_late_assert(self, points, rands, evals) ==
    [panic |-> Len(rands) # Len(points) \/ Len(rands) # Len(evals),
     self |-> [self EXCEPT !.weights = AbsorbPoints(@, points, rands, 1),
                           !.sum = AbsorbEvals(@, rands, evals, 1)]]

\* Mutant of add_new_equality: each point is scaled by the product of the
\* coefficients up to its own instead of by its own coefficient.
RECURSIVE AbsorbPointsRunning(_, _, _, _, _)
AbsorbPointsRunning(w, points, rands, i, acc) ==
    IF i > Min(Len(points), Len(rands)) THEN w
    ELSE AbsorbPointsRunning(eval_eq(points[i], w, FMul(acc, rands[i])), points, rands,
                             i + 1, FMul(acc, rands[i]))

add_new_equality_running(self, points, rands, evals) ==
    IF Len(rands) # Len(points) \/ Len(rands) # Len(evals)
    THEN [panic |-> TRUE, self |-> self]
    ELSE [panic |-> FALSE,
          self |-> [self EXCEPT !.weights = AbsorbPointsRunning(@, points, rands, 1, ONE),
                                !.sum = AbsorbEvals(@, rands, evals, 1)]]

\* add_new_equality: the two assert_eq! come first; a failed one panics and
\* leaves self as it was.
add_new_equality(self, points, rands, evals) ==
    IF Len(rands) # Len(points) \/ Len(rands) # Len(evals)
    THEN [panic |-> TRUE, self |-> self]
    ELSE [panic |-> FALSE,
          self |-> [self EXCEPT !.weights = AbsorbPoints(@, points, rands, 1),
                                !.sum = AbsorbEvals(@, rands, evals, 1)]]

\* par_chunks_exact(2): the adjacent pairs of a table; an odd last entry is dropped.
chunks_exact2(table) ==
    [i \in 1..(Len(table) \div 2) |-> <<table[2 * i - 1], table[2 * i]>>]

\* The map closure: the pair's contribution (p_0 * eq_0, p_1 * eq_1).
PairTerm(p_at, eq_at) ==
    LET p_0 == p_at[1]
        p_1 == FSub(p_at[2], p_at[1])
        eq_0 == eq_at[1]
        eq_1 == FSub(eq_at[2], eq_at[1])
    IN  <<FMul(p_0, eq_0), FMul(p_1, eq_1)>>

\* zip(...).map(...).reduce(|| (ZERO, ZERO), |(a0, a2), (b0, b2)| (a0 + b0, a2 + b2))
\* run by one worker: the sequential sum from the left
RECURSIVE ReducePairs(_, _, _, _)
ReducePairs(ps, ws, acc, i) ==
    IF i > Min(Len(ps), Len(ws)) THEN acc
    ELSE LET t == PairTerm(ps[i], ws[i])
         IN  ReducePairs(ps, ws, <<FAdd(acc[1], t[1]), FAdd(acc[2], t[2])>>, i + 1)

\* zip(...).map(...): the contributions of the pairs, in index order
Terms(ps, ws) == [i \in 1..Min(Len(ps), Len(ws)) |-> PairTerm(ps[i], ws[i])]

\* The identity closure of reduce: || (F::ZERO, F::ZERO)
ReduceIdentity == <<ZERO, ZERO>>

\* Mutant of the reduce closure: the two components of the right operand cross.
ReduceOp_crossed(a, b) == <<FAdd(a[1], b[2]), FAdd(a[2], b[1])>>

\* The reduce closure: |(a0, a2), (b0, b2)| (a0 + b0, a2 + b2)
ReduceOp(a, b) == <<FAdd(a[1], b[1]), FAdd(a[2], b[2])>>

\* The ways the parallel reduce may run over k pairs.  The pairs are taken in
\* some order, cut into one block per worker; a worker folds its block from the
\* identity, and the partial results are combined from the left or from the right.
RECURSIVE PermsOf(_)
PermsOf(S) ==
    IF S = {} THEN {<<>>} ELSE UNION {{<<x>> \o q : q \in PermsOf(S \ {x})} : x \in S}
Schedules(k) ==
    {[order |-> o, cuts |-> c, tree |-> t] :
        o \in PermsOf(1..k), c \in SUBSET (1..(k - 1)), t \in {"left", "right"}}

\* The partial results of the workers, in the order of their blocks.
RECURSIVE WorkerPartials(_, _, _, _, _)
WorkerPartials(terms, schedule, i, acc, out) ==
    IF i > Len(schedule.order) THEN out
    ELSE LET a == ReduceOp(acc, terms[schedule.order[i]])
         IN  IF i \in schedule.cuts \/ i = Len(schedule.order)
             THEN WorkerPartials(terms, schedule, i + 1, ReduceIdentity, Append(out, a))
             ELSE WorkerPartials(terms, schedule, i + 1, a, out)

RECURSIVE CombineLeft(_, _, _)
CombineLeft(parts, acc, i) ==
    IF i > Len(parts) THEN acc ELSE CombineLeft(parts, ReduceOp(acc, parts[i]), i + 1)
RECURSIVE CombineRight(_, _)
CombineRight(parts, i) ==
    IF i > Len(parts) THEN ReduceIdentity ELSE ReduceOp(parts[i], CombineRight(parts, i + 1))

\* reduce(identity, op) run under a schedule
ScheduledReduce(terms, schedule) ==
    LET parts == WorkerPartials(terms, schedule, 1, ReduceIdentity, <<>>)
    IN  IF schedule.tree = "left" THEN CombineLeft(parts, ReduceIdentity, 1)
        ELSE CombineRight(parts, 1)

\* Mutant of the evaluation step: S(2) without the doubled c2.
SumcheckEvals_nodouble(c0, c2, s) ==
    LET c1 == FSub(FSub(s, FDouble(c0)), c2)
        eval_1 == FAdd(FAdd(c0, c1), c2)
    IN  <<c0, eval_1, FAdd(FAdd(FAdd(eval_1, c1), c2), c2)>>

\* Mutant of the evaluation step: c1 taken from sum = c0 + c1 + c2.
SumcheckEvals_single_c0(c0, c2, s) ==
    LET c1 == FSub(FSub(s, c0), c2)
        eval_1 == FAdd(FAdd(c0, c1), c2)
    IN  <<c0, eval_1, FAdd(FAdd(FAdd(eval_1, c1), c2), FDouble(c2))>>

\* The three evaluations built from c0, c2 and self.sum.
SumcheckEvals(c0, c2, s) ==
    LET c1 == FSub(FSub(s, FDouble(c0)), c2)
        eval_0 == c0
        eval_1 == FAdd(FAdd(c0, c1), c2)
        eval_2 == FAdd(FAdd(FAdd(eval_1, c1), c2), FDouble(c2))
    IN  <<eval_0, eval_1, eval_2>>

\* The line the call prints before it reduces.
PrintedLine(self) == <<"weights", self.weights>>

\* Mutant of compute_sumcheck_polynomial: the precondition is not asserted.
compute_sumcheck_polynomial_unchecked(self, schedule) ==
    LET c == ScheduledReduce(Terms(chunks_exact2(self.evaluation_of_p),
                                   chunks_exact2(self.weights)), schedule)
    IN  [panic |-> FALSE,
         printed |-> <<PrintedLine(self)>>,
         result |-> SumcheckEvals(c[1], c[2], self.sum)]

\* compute_sumcheck_polynomial: panics when the polynomial has no variable;
\* otherwise prints the weights and returns the three evaluations.  The
\* schedule is the way the thread pool happens to run the reduction.
compute_sumcheck_polynomial(self, schedule) ==
    IF ~(num_variables(self.evaluation_of_p) >= 1)
    THEN [panic |-> TRUE, printed |-> <<>>, result |-> <<>>]
    ELSE LET c == ScheduledReduce(Terms(chunks_exact2(self.evaluation_of_p),
                                        chunks_exact2(self.weights)), schedule)
         IN  [panic |-> FALSE,
              printed |-> <<PrintedLine(self)>>,
              result |-> SumcheckEvals(c[1], c[2], self.sum)]

(***************************************************************************)
(* Inputs of the operations.                                               *)
(***************************************************************************)
\* Coefficient lists in n variables: the arithmetic progressions i + b.
\* b = 0 is the polynomial (1, 2, 3, 4, ...) of the repository's tests.
PolyChoices(n) ==
    {[i \in 1..Pow2(n) |-> (i + b) % FieldOrder] : b \in {0, 3}}

\* Coordinates of evaluation points: a Boolean one and one off the hypercube.
PointVals == {1, 2}
PointSet(k) == [1..k -> PointVals]

\* Combination coefficients.
RandVals == {1, 2}

SeqsUpTo(S, k) == UNION {[1..len -> S] : len \in 0..k}

\* The evaluation of c at z (a point of another dimension than c has none;
\* ZERO stands in for it, and no claimed value is truthful for it).
TrueValue(c, z) == IF Len(z) = num_variables(c) THEN evaluate(c, z) ELSE ZERO
Truthful(c, z, v) == Len(z) = num_variables(c) /\ v = evaluate(c, z)

\* Claimed values for the points ps: the true ones, or the true ones with the
\* last one wrong.
ValueSeqs(c, ps) ==
    LET tv == [i \in 1..Len(ps) |-> TrueValue(c, ps[i])]
    IN  {tv} \cup (IF Len(ps) = 0 THEN {}
                   ELSE {[tv EXCEPT ![Len(ps)] = FAdd(@, ONE)]})

StatementChoices(c, m) ==
    UNION {{[num_variables |-> m,
             constraints |-> [i \in 1..Len(ps) |-> [point |-> ps[i], value |-> vs[i]]]] :
                vs \in ValueSeqs(c, ps)} :
           ps \in SeqsUpTo(PointSet(m), MaxConstraints)}

(***************************************************************************)
(* The SumcheckSingle state machine.                                       *)
(***************************************************************************)
self == [evaluation_of_p |-> evaluation_of_p, weights |-> weights, sum |-> sum]

NoCall == [op |-> "none", args |-> <<>>, result |-> <<>>]

SumcheckInit ==
    /\ pc = "start"
    /\ coeffs = <<>>
    /\ evaluation_of_p = <<>>
    /\ weights = <<>>
    /\ sum = ZERO
    /\ call = NoCall
    /\ honest = TRUE
    /\ absorbed = 0
    /\ adds = 0
    /\ stdout = <<>>

New(c, statement, r0) ==
    /\ pc = "start"
    /\ \E made \in {SumcheckSingle_new(c, statement, r0)} :
           /\ evaluation_of_p' = made.evaluation_of_p
           /\ weights' = made.weights
           /\ sum' = made.sum
    /\ pc' = "ready"
    /\ coeffs' = c
    /\ call' = [op |-> "new", args |-> <<c, statement, r0>>, result |-> <<>>]
    /\ honest' = \A i \in 1..Len(statement.constraints) :
                    Truthful(c, statement.constraints[i].point, statement.constraints[i].value)
    /\ absorbed' = Len(statement.constraints)
    /\ UNCHANGED <<adds, stdout>>

AddNewEquality(points, rands, evals) ==
    /\ pc = "ready"
    /\ adds < MaxAdds
    /\ \E r \in {add_new_equality(self, points, rands, evals)} :
           /\ evaluation_of_p' = r.self.evaluation_of_p
           /\ weights' = r.self.weights
           /\ sum' = r.self.sum
           /\ pc' = IF r.panic THEN "panicked" ELSE "ready"
           /\ absorbed' = IF r.panic THEN absorbed ELSE absorbed + Len(points)
           /\ honest' = IF r.panic THEN honest
                        ELSE honest /\ \A i \in 1..Len(points) :
                                          Truthful(coeffs, points[i], evals[i])
    /\ call' = [op |-> "add_new_equality", args |-> <<points, rands, evals>>, result |-> <<>>]
    /\ adds' = adds + 1
    /\ UNCHANGED <<coeffs, stdout>>

\* The number of pairs the reduction runs over.
NumPairs == Min(Len(evaluation_of_p), Len(weights)) \div 2

ComputeSumcheckPolynomial(schedule) ==
    /\ pc = "ready"
    /\ Len(stdout) < MaxPrints
    /\ \E r \in {compute_sumcheck_polynomial(self, schedule)} :
           /\ pc' = IF r.panic THEN "panicked" ELSE "ready"
           /\ stdout' = stdout \o r.printed
           /\ call' = [op |-> "compute_sumcheck_polynomial", args |-> <<>>, result |-> r.result]
    /\ UNCHANGED <<coeffs, evaluation_of_p, weights, sum, honest, absorbed, adds>>

\* The slices handed to add_new_equality, for a weight table in k variables
\* and the polynomial c: up to MaxBatch points with their coefficients and
\* claimed values, and slices whose lengths differ.
MatchedArgs(c, k) ==
    UNION {{<<ps, rs, es>> : rs \in [1..Len(ps) -> RandVals], es \in ValueSeqs(c, ps)} :
           ps \in SeqsUpTo(PointSet(k), MaxBatch)}

MismatchedArgs(k) ==
    {<<[i \in 1..lp |-> [j \in 1..k |-> 1]], [i \in 1..lr |-> 2], [i \in 1..le |-> 1]>> :
        lp \in 0..MaxBatch, lr \in 0..MaxBatch, le \in 0..MaxBatch}
    \ {<<[i \in 1..l |-> [j \in 1..k |-> 1]], [i \in 1..l |-> 2], [i \in 1..l |-> 1]>> :
        l \in 0..MaxBatch}

AddArgs == MatchedArgs(coeffs, num_variables(weights)) \cup MismatchedArgs(num_variables(weights))

NewChoices ==
    UNION {{<<c, statement, r0>> : statement \in StatementChoices(c, m), r0 \in RandVals} :
           <<c, m>> \in UNION {PolyChoices(n) \X (0..MaxVars) : n \in 0..MaxVars}}

NewStep ==
    /\ pc = "start"
    /\ \E a \in NewChoices : New(a[1], a[2], a[3])
    /\ UNCHANGED <<separatorVars, domainVars, configVars>>

AddNewEqualityStep ==
    /\ pc = "ready" /\ adds < MaxAdds
    /\ \E a \in AddArgs : AddNewEquality(a[1], a[2], a[3])
    /\ UNCHANGED <<separatorVars, domainVars, configVars>>

ComputeSumcheckPolynomialStep ==
    /\ pc = "ready" /\ Len(stdout) < MaxPrints
    /\ \E schedule \in Schedules(NumPairs) : ComputeSumcheckPolynomial(schedule)
    /\ UNCHANGED <<separatorVars, domainVars, configVars>>

(***************************************************************************)
(* The parallel reduction on its own: a SumcheckSingle over ReduceVars     *)
(* variables as new leaves it, and one compute_sumcheck_polynomial call    *)
(* whose schedule is recorded in the call.                                 *)
(***************************************************************************)
ReduceNewChoices ==
    UNION {{<<c, statement, r0>> :
               statement \in {st \in StatementChoices(c, ReduceVars) :
                                 Len(st.constraints) <= 1},
               r0 \in RandVals} :
           c \in PolyChoices(ReduceVars)}

ReduceInit ==
    /\ \E a \in ReduceNewChoices :
           \E made \in {SumcheckSingle_new(a[1], a[2], a[3])} :
               /\ coeffs = a[1]
               /\ evaluation_of_p = made.evaluation_of_p
               /\ weights = made.weights
               /\ sum = made.sum
               /\ call = [op |-> "new", args |-> a, result |-> <<>>]
               /\ honest = \A i \in 1..Len(a[2].constraints) :
                               Truthful(a[1], a[2].constraints[i].point,
                                        a[2].constraints[i].value)
               /\ absorbed = Len(a[2].constraints)
    /\ pc = "ready"
    /\ adds = 0
    /\ stdout = <<>>

ComputeScheduled(schedule) ==
    /\ pc = "ready"
    /\ \E r \in {compute_sumcheck_polynomial(self, schedule)} :
           /\ pc' = IF r.panic THEN "panicked" ELSE "ready"
           /\ stdout' = stdout \o r.printed
           /\ call' = [op |-> "compute_sumcheck_polynomial", args |-> <<schedule>>,
                       result |-> r.result]
    /\ UNCHANGED <<coeffs, evaluation_of_p, weights, sum, honest, absorbed, adds>>

ComputeScheduledStep ==
    /\ pc = "ready" /\ call.op = "new"
    /\ \E schedule \in Schedules(NumPairs) : ComputeScheduled(schedule)
    /\ UNCHANGED <<separatorVars, domainVars, configVars>>

(***************************************************************************)
(* f64 values.  A finite value is an integer number of tenths (10 is 1.0,  *)
(* 5 is 0.5); NaN is a value of its own, unordered with every value, so    *)
(* that each comparison operator with a NaN operand is false.              *)
(***************************************************************************)
NaN == -1000000
FloatGt(a, b) == a # NaN /\ b # NaN /\ a > b
FloatLe(a, b) == a # NaN /\ b # NaN /\ a <= b
FloatGe(a, b) == a # NaN /\ b # NaN /\ a >= b
\* usize as f64
AsFloat(n) == 10 * n

(***************************************************************************)
(* DomainSeparator: the protocol identifier followed by the entries        *)
(* appended so far.  Each entry is a labelled slot.                        *)
(***************************************************************************)
DomainSeparator_new(id) == <<[kind |-> "protocol", count |-> 0, label |-> id]>>

\* FieldDomainSeparator::challenge_scalars(count, label)
challenge_scalars(sep, count, label) ==
    Append(sep, [kind |-> "challenge", count |-> count, label |-> label])

\* FieldDomainSeparator::add_scalars(count, label)
add_scalars(sep, count, label) ==
    Append(sep, [kind |-> "response", count |-> count, label |-> label])

\* PoWDomainSeparator::challenge_pow(label)
challenge_pow(sep, label) ==
    Append(sep, [kind |-> "pow", count |-> 1, label |-> label])

\* Mutant of add_ood: the slots are declared on a fresh pattern holding only
\* the protocol identifier, dropping the entries declared before.
add_ood_truncating(sep, num_samples) ==
    IF num_samples > 0
    THEN add_scalars(challenge_scalars(<<sep[1]>>, num_samples, "ood_query"), num_samples, "ood_ans")
    ELSE sep

\* Mutant of add_ood: the response slot declared before the challenge slot.
add_ood_swapped(sep, num_samples) ==
    IF num_samples > 0
    THEN challenge_scalars(add_scalars(sep, num_samples, "ood_ans"), num_samples, "ood_query")
    ELSE sep

\* OODDomainSeparator::add_ood
add_ood(sep, num_samples) ==
    IF num_samples > 0
    THEN add_scalars(challenge_scalars(sep, num_samples, "ood_query"), num_samples, "ood_ans")
    ELSE sep

\* Mutant of pow: the argument is truncated to whole bits before the test.
pow_whole_bits(sep, bits) ==
    IF FloatGe(bits, AsFloat(1))
    THEN challenge_pow(sep, "pow_queries")
    ELSE sep

\* WhirPoWDomainSeparator::pow
pow(sep, bits) ==
    IF FloatGt(bits, 0)
    THEN challenge_pow(sep, "pow_queries")
    ELSE sep

\* Arguments handed to pow: negative, zero, fractional, whole, and NaN.
BitsChoices == {-10, 0, 5, 10, 25, NaN}

NoSepCall == [op |-> "none", arg |-> 0]

SeparatorInit ==
    /\ pattern = DomainSeparator_new("test_protocol")
    /\ sepCall = NoSepCall

AddOod(num_samples) ==
    /\ Len(add_ood(pattern, num_samples)) <= MaxPattern + 1
    /\ pattern' = add_ood(pattern, num_samples)
    /\ sepCall' = [op |-> "add_ood", arg |-> num_samples]

Pow(bits) ==
    /\ Len(pow(pattern, bits)) <= MaxPattern + 1
    /\ pattern' = pow(pattern, bits)
    /\ sepCall' = [op |-> "pow", arg |-> bits]

AddOodStep ==
    /\ \E num_samples \in 0..MaxSamples : AddOod(num_samples)
    /\ UNCHANGED <<sumcheckVars, domainVars, configVars>>

PowStep ==
    /\ \E bits \in BitsChoices : Pow(bits)
    /\ UNCHANGED <<sumcheckVars, domainVars, configVars>>

(***************************************************************************)
(* Radix2EvaluationDomain (src/src/domain/radix2.rs).  The code is generic *)
(* over a two-adic field; the model instantiates it with the prime field   *)
(* of TwoAdicFieldOrder = 3 * 2^6 + 1 elements, whose two-adicity is 6.    *)
(***************************************************************************)
TwoAdicFieldOrder == 193
TWO_ADICITY == 6
\* an element of multiplicative order 2^TWO_ADICITY
TwoAdicRoot == 125

TMul(a, b) == (a * b) % TwoAdicFieldOrder

\* exp_u64: square and multiply
RECURSIVE exp_u64(_, _)
exp_u64(a, e) ==
    IF e = 0 THEN ONE
    ELSE LET h == exp_u64(a, e \div 2)
         IN  IF e % 2 = 0 THEN TMul(h, h) ELSE TMul(TMul(h, h), a)

\* Field::inverse of a non-zero element
inverse(a) == exp_u64(a, TwoAdicFieldOrder - 2)

\* PrimeCharacteristicRing::from_u64
from_u64(n) == n % TwoAdicFieldOrder

\* TwoAdicField::two_adic_generator(bits): a generator of the subgroup of order 2^bits
two_adic_generator(bits) == exp_u64(TwoAdicRoot, Pow2(TWO_ADICITY - bits))

\* usize::next_power_of_two: the smallest power of two >= n (1 for n = 0)
RECURSIVE NextPowerFrom(_, _)
NextPowerFrom(n, p) == IF p >= n THEN p ELSE NextPowerFrom(n, 2 * p)
next_power_of_two(n) == NextPowerFrom(n, 1)

\* u64::trailing_zeros of a non-zero value
RECURSIVE trailing_zeros(_)
trailing_zeros(n) == IF n % 2 = 1 THEN 0 ELSE 1 + trailing_zeros(n \div 2)

None == [some |-> FALSE]

Some(size, log_size_of_group, group_gen, group_gen_inv) ==
    [some                  |-> TRUE,
     size                  |-> size,
     log_size_of_group     |-> log_size_of_group,
     size_as_field_element |-> from_u64(size),
     size_inv              |-> inverse(from_u64(size)),
     group_gen             |-> group_gen,
     group_gen_inv         |-> group_gen_inv,
     offset                |-> ONE,
     offset_inv            |-> ONE,
     offset_pow_size       |-> ONE]

\* Mutant of new: a domain of exactly the largest size is refused too.
Radix2EvaluationDomain_new_strict(num_coeffs) ==
    LET size == next_power_of_two(num_coeffs)
        log_size_of_group == trailing_zeros(size)
    IN  IF log_size_of_group >= TWO_ADICITY
        THEN None
        ELSE LET group_gen == two_adic_generator(log_size_of_group)
             IN  Some(size, log_size_of_group, group_gen, inverse(group_gen))

\* Mutant of new: the generator is taken for the subgroup of half the size.
Radix2EvaluationDomain_new_half_root(num_coeffs) ==
    LET size == next_power_of_two(num_coeffs)
        log_size_of_group == trailing_zeros(size)
    IN  IF log_size_of_group > TWO_ADICITY
        THEN None
        ELSE LET group_gen == two_adic_generator(IF log_size_of_group > 0
                                                 THEN log_size_of_group - 1 ELSE 0)
             IN  Some(size, log_size_of_group, group_gen, inverse(group_gen))

\* Mutant of new: the generator is stored where its inverse belongs.
Radix2EvaluationDomain_new_no_inverse(num_coeffs) ==
    LET size == next_power_of_two(num_coeffs)
        log_size_of_group == trailing_zeros(size)
    IN  IF log_size_of_group > TWO_ADICITY
        THEN None
        ELSE LET group_gen == two_adic_generator(log_size_of_group)
             IN  Some(size, log_size_of_group, group_gen, group_gen)

\* Radix2EvaluationDomain::new
Radix2EvaluationDomain_new(num_coeffs) ==
    LET size == next_power_of_two(num_coeffs)
        log_size_of_group == trailing_zeros(size)
    IN  IF log_size_of_group > TWO_ADICITY
        THEN None
        ELSE LET group_gen == two_adic_generator(log_size_of_group)
             IN  Some(size, log_size_of_group, group_gen, inverse(group_gen))

DomainInit ==
    /\ domain = None
    /\ domCall = -1

DomainNew(num_coeffs) ==
    /\ domain' = Radix2EvaluationDomain_new(num_coeffs)
    /\ domCall' = num_coeffs

DomainNewStep ==
    /\ \E num_coeffs \in 0..MaxCoeffs : DomainNew(num_coeffs)
    /\ UNCHANGED <<sumcheckVars, separatorVars, configVars>>

(***************************************************************************)
(* WhirConfig (src/src/whir/parameters.rs): the soundness formulas.        *)
(* f64 quantities are finite numbers of tenths of a bit here; usize is     *)
(* narrowed to 16 bits.                                                    *)
(***************************************************************************)
USIZE_MAX == 65535
\* f64::INFINITY
Inf == 1000000
\* std::f64::consts::LOG2_10 = 3.3219...
LOG2_10 == 33

SoundnessType == {"UniqueDecoding", "ProvableList", "ConjectureList"}

\* f64::NEG_INFINITY
NegInf == 0 - 2 * Inf
\* f64::max and f64::min: a NaN operand is ignored
FloatMax(a, b) == IF a = NaN THEN b ELSE IF b = NaN THEN a ELSE IF a >= b THEN a ELSE b
FloatMin(a, b) == IF a = NaN THEN b ELSE IF b = NaN THEN a ELSE IF a <= b THEN a ELSE b
\* f64 negation, addition and subtraction: NaN propagates, an infinity absorbs
\* every finite operand, and inf - inf is NaN
FloatNeg(a) ==
    IF a = NaN THEN NaN ELSE IF a = Inf THEN NegInf ELSE IF a = NegInf THEN Inf ELSE 0 - a
FloatAdd(a, b) ==
    IF a = NaN \/ b = NaN THEN NaN
    ELSE IF a \in {Inf, NegInf}
         THEN IF b \in {Inf, NegInf} /\ b # a THEN NaN ELSE a
         ELSE IF b \in {Inf, NegInf} THEN b ELSE a + b
FloatSub(a, b) == FloatAdd(a, FloatNeg(b))
\* ceil(a / b) for a >= 0 and b > 0
CeilDiv(a, b) == (a + b - 1) \div b

\* -log2(0.5 * (1 + 2^-log_inv_rate)) in millionths, for log_inv_rate in 1..8
NegLog2HalfOnePlusRate(log_inv_rate) ==
    <<415037, 678072, 830075, 912537, 955606, 977632, 988771, 994375>>[log_inv_rate]

\* f64::log2 of a positive integer, in tenths: the integer part by halving, the
\* fractional part bit by bit by squaring a mantissa of 10 fractional bits
RECURSIVE FloorLog2(_)
FloorLog2(n) == IF n < 2 THEN 0 ELSE 1 + FloorLog2(n \div 2)
RECURSIVE FracLog2(_, _, _)
FracLog2(m, bits, acc) ==
    IF bits = 0 THEN acc
    ELSE LET sq == (m * m) \div 1024
         IN  IF sq >= 2048 THEN FracLog2(sq \div 2, bits - 1, 2 * acc + 1)
                           ELSE FracLog2(sq, bits - 1, 2 * acc)
log2(n) ==
    LET k == FloorLog2(n)
    IN  10 * k + (10 * FracLog2((n * 1024) \div Pow2(k), 8, 0)) \div 256

\* WhirConfig::log_eta
log_eta(soundness_type, log_inv_rate) ==
    CASE soundness_type = "ProvableList"   -> 0 - (5 * log_inv_rate + LOG2_10 + 10)
      [] soundness_type = "UniqueDecoding" -> 0
      [] soundness_type = "ConjectureList" -> 0 - (AsFloat(log_inv_rate) + 10)

\* WhirConfig::list_size_bits
list_size_bits(soundness_type, n_variables, log_inv_rate, eta) ==
    CASE soundness_type = "ConjectureList" ->
             FloatSub(AsFloat(n_variables + log_inv_rate), eta)
      [] soundness_type = "ProvableList"   ->
             LET log_inv_sqrt_rate == 5 * log_inv_rate
             IN  FloatSub(log_inv_sqrt_rate, FloatAdd(10, eta))
      [] soundness_type = "UniqueDecoding" -> 0

\* WhirConfig::rbr_ood_sample
rbr_ood_sample(soundness_type, n_variables, log_inv_rate, eta, field_size_bits, samples) ==
    LET list_size == list_size_bits(soundness_type, n_variables, log_inv_rate, eta)
        error == FloatAdd(FloatAdd(list_size, list_size), AsFloat(n_variables * samples))
    IN  FloatSub(AsFloat(samples * field_size_bits) + 10, error)

\* (from..64).find(..): the first count of the range meeting the target, 64 if none does
RECURSIVE FindOodSamples(_, _, _, _, _, _, _)
FindOodSamples(from, security_level, soundness_type, n_variables, log_inv_rate, eta, field_size_bits) ==
    IF from >= 64 THEN 64
    ELSE IF FloatGe(rbr_ood_sample(soundness_type, n_variables, log_inv_rate, eta,
                                   field_size_bits, from), AsFloat(security_level))
         THEN from
         ELSE FindOodSamples(from + 1, security_level, soundness_type, n_variables,
                             log_inv_rate, eta, field_size_bits)

\* Mutant of ood_samples: the search starts at zero samples.
ood_samples_from_zero(security_level, soundness_type, n_variables, log_inv_rate, eta, field_size_bits) ==
    IF soundness_type = "UniqueDecoding" THEN [panic |-> FALSE, value |-> 0]
    ELSE LET k == FindOodSamples(0, security_level, soundness_type, n_variables,
                                 log_inv_rate, eta, field_size_bits)
         IN  IF k = 64 THEN [panic |-> TRUE, value |-> 0] ELSE [panic |-> FALSE, value |-> k]

\* Mutant of ood_samples: UniqueDecoding is searched like the other regimes.
ood_samples_always_search(security_level, soundness_type, n_variables, log_inv_rate, eta, field_size_bits) ==
    LET k == FindOodSamples(1, security_level, soundness_type, n_variables,
                            log_inv_rate, eta, field_size_bits)
    IN  IF k = 64 THEN [panic |-> TRUE, value |-> 0] ELSE [panic |-> FALSE, value |-> k]

\* WhirConfig::ood_samples
ood_samples(security_level, soundness_type, n_variables, log_inv_rate, eta, field_size_bits) ==
    IF soundness_type = "UniqueDecoding" THEN [panic |-> FALSE, value |-> 0]
    ELSE LET k == FindOodSamples(1, security_level, soundness_type, n_variables,
                                 log_inv_rate, eta, field_size_bits)
         IN  IF k = 64 THEN [panic |-> TRUE, value |-> 0] ELSE [panic |-> FALSE, value |-> k]

\* WhirConfig::rbr_soundness_fold_prox_gaps
rbr_soundness_fold_prox_gaps(soundness_type, field_size_bits, n_variables, log_inv_rate, eta) ==
    LET error ==
            CASE soundness_type = "ConjectureList" ->
                     FloatSub(AsFloat(n_variables + log_inv_rate), eta)
              [] soundness_type = "ProvableList"   ->
                     LOG2_10 + 35 * log_inv_rate + 2 * AsFloat(n_variables)
              [] soundness_type = "UniqueDecoding" -> AsFloat(n_variables + log_inv_rate)
    IN  FloatSub(AsFloat(field_size_bits), error)

\* WhirConfig::rbr_soundness_fold_sumcheck
rbr_soundness_fold_sumcheck(soundness_type, field_size_bits, n_variables, log_inv_rate, eta) ==
    LET list_size == list_size_bits(soundness_type, n_variables, log_inv_rate, eta)
    IN  FloatSub(AsFloat(field_size_bits), FloatAdd(list_size, 10))

\* Mutant of folding_pow_bits: the difference is returned without the clamp at zero.
folding_pow_bits_unclamped(security_level, soundness_type, field_size_bits, n_variables, log_inv_rate, eta) ==
    LET prox_gaps_error == rbr_soundness_fold_prox_gaps(soundness_type, field_size_bits,
                                                        n_variables, log_inv_rate, eta)
        sumcheck_error == rbr_soundness_fold_sumcheck(soundness_type, field_size_bits,
                                                      n_variables, log_inv_rate, eta)
        error == FloatMin(prox_gaps_error, sumcheck_error)
    IN  FloatSub(AsFloat(security_level), error)

\* WhirConfig::folding_pow_bits
folding_pow_bits(security_level, soundness_type, field_size_bits, n_variables, log_inv_rate, eta) ==
    LET prox_gaps_error == rbr_soundness_fold_prox_gaps(soundness_type, field_size_bits,
                                                        n_variables, log_inv_rate, eta)
        sumcheck_error == rbr_soundness_fold_sumcheck(soundness_type, field_size_bits,
                                                      n_variables, log_inv_rate, eta)
        error == FloatMin(prox_gaps_error, sumcheck_error)
    IN  FloatMax(0, FloatSub(AsFloat(security_level), error))

\* Mutant of queries: the provable-list count is taken modulo a small table size.
queries_wrapping(soundness_type, protocol_security_level, log_inv_rate) ==
    IF log_inv_rate = 0
    THEN IF soundness_type # "UniqueDecoding" /\ protocol_security_level > 0
         THEN USIZE_MAX ELSE 0
    ELSE CASE soundness_type = "UniqueDecoding" ->
                  CeilDiv(protocol_security_level * 1000000,
                          NegLog2HalfOnePlusRate(log_inv_rate))
           [] soundness_type = "ProvableList"   ->
                  CeilDiv(2 * protocol_security_level, log_inv_rate) % 16
           [] soundness_type = "ConjectureList" ->
                  CeilDiv(protocol_security_level, log_inv_rate)

\* Mutant of queries: the quotient is truncated instead of rounded up.
queries_floor(soundness_type, protocol_security_level, log_inv_rate) ==
    IF log_inv_rate = 0
    THEN IF soundness_type # "UniqueDecoding" /\ protocol_security_level > 0
         THEN USIZE_MAX ELSE 0
    ELSE CASE soundness_type = "UniqueDecoding" ->
                  (protocol_security_level * 1000000)
                      \div NegLog2HalfOnePlusRate(log_inv_rate)
           [] soundness_type = "ProvableList"   ->
                  (2 * protocol_security_level) \div log_inv_rate
           [] soundness_type = "ConjectureList" ->
                  protocol_security_level \div log_inv_rate

\* WhirConfig::queries.  With log_inv_rate = 0 the quotient is infinite or
\* NaN (a denominator of zero), which the cast to usize saturates to
\* usize::MAX, or to 0 for -inf and NaN.
queries(soundness_type, protocol_security_level, log_inv_rate) ==
    IF log_inv_rate = 0
    THEN IF soundness_type # "UniqueDecoding" /\ protocol_security_level > 0
         THEN USIZE_MAX ELSE 0
    ELSE CASE soundness_type = "UniqueDecoding" ->
                  CeilDiv(protocol_security_level * 1000000,
                          NegLog2HalfOnePlusRate(log_inv_rate))
           [] soundness_type = "ProvableList"   ->
                  CeilDiv(2 * protocol_security_level, log_inv_rate)
           [] soundness_type = "ConjectureList" ->
                  CeilDiv(protocol_security_level, log_inv_rate)

\* WhirConfig::rbr_queries
rbr_queries(soundness_type, log_inv_rate, num_queries) ==
    CASE soundness_type = "UniqueDecoding" ->
             IF log_inv_rate = 0 THEN 0
             ELSE (num_queries * NegLog2HalfOnePlusRate(log_inv_rate)) \div 100000
      [] soundness_type = "ProvableList"   -> num_queries * 5 * log_inv_rate
      [] soundness_type = "ConjectureList" -> AsFloat(num_queries * log_inv_rate)

\* WhirConfig::rbr_soundness_queries_combination, given ood_samples + num_queries.
\* The logarithm of zero is -inf, which makes the result +inf.
rbr_soundness_queries_combination(soundness_type, field_size_bits, n_variables, log_inv_rate, eta, samples_plus_queries) ==
    LET list_size == list_size_bits(soundness_type, n_variables, log_inv_rate, eta)
    IN  IF samples_plus_queries = 0 THEN Inf
        ELSE FloatSub(AsFloat(field_size_bits),
                      FloatAdd(FloatAdd(log2(samples_plus_queries), list_size), 10))

(***************************************************************************)
(* WhirConfig::new.  The folding-factor schedule and Domain are the        *)
(* crate's own types (crate::parameters, crate::domain).                   *)
(***************************************************************************)
\* EF::bits() * EF::DIMENSION * F::DIMENSION for the 193-element field
FieldSizeBits == 8

\* FoldingFactor::Constant(factor) and FoldingFactor::ConstantFromSecondRound(first, factor)
Constant(factor) == [kind |-> "Constant", first |-> factor, factor |-> factor]
ConstantFromSecondRound(first, factor) ==
    [kind |-> "ConstantFromSecondRound", first |-> first, factor |-> factor]

\* FoldingFactor::at_round
at_round(folding_factor, round) ==
    IF round = 0 THEN folding_factor.first ELSE folding_factor.factor

\* FoldingFactor::check_validity: TRUE for Ok(())
check_validity(folding_factor, n_variables) ==
    /\ folding_factor.first <= n_variables
    /\ folding_factor.factor <= n_variables
    /\ folding_factor.first # 0
    /\ folding_factor.factor # 0

\* FoldingFactor::compute_number_of_rounds: <<num_rounds, final_sumcheck_rounds>>
compute_number_of_rounds(folding_factor, n_variables) ==
    IF folding_factor.kind = "Constant"
    THEN LET final_sumcheck_rounds == n_variables % folding_factor.factor
         IN  <<(n_variables - final_sumcheck_rounds) \div folding_factor.factor - 1,
               final_sumcheck_rounds>>
    ELSE LET nv_except_first_round == n_variables - folding_factor.first
         IN  IF nv_except_first_round < folding_factor.factor
             THEN <<0, nv_except_first_round>>
             ELSE LET final_sumcheck_rounds == nv_except_first_round % folding_factor.factor
                  IN  <<(nv_except_first_round - final_sumcheck_rounds)
                            \div folding_factor.factor,
                        final_sumcheck_rounds>>

\* Domain::new(degree, log_rho_inv): the radix-2 domain of degree * 2^log_rho_inv points
Domain_new(degree, log_rho_inv) == Radix2EvaluationDomain_new(degree * Pow2(log_rho_inv))

\* ood_samples + num_queries on usize.  A build with overflow checks panics on
\* overflow, a build without them wraps.
usize_add(a, b, overflow_checks) ==
    IF a + b > USIZE_MAX
    THEN IF overflow_checks THEN [panic |-> TRUE, value |-> 0]
                            ELSE [panic |-> FALSE, value |-> (a + b) % (USIZE_MAX + 1)]
    ELSE [panic |-> FALSE, value |-> a + b]

NoPanic == "none"

\* Mutant of saturating_sub: the subtrahend is ignored.
saturating_sub_ignored(a, b) == a

\* usize::saturating_sub
saturating_sub(a, b) == IF a >= b THEN a - b ELSE 0

\* Mutant of RoundOf: the RoundConfig records the rate after the fold.
RoundOf_post_rate(p, protocol_security_level, n_variables, log_inv_rate, round, overflow_checks) ==
    LET next_rate == log_inv_rate + (at_round(p.folding_factor, round) - 1)
        log_next_eta == log_eta(p.soundness_type, next_rate)
        num_queries == queries(p.soundness_type, protocol_security_level, log_inv_rate)
        ood == ood_samples(p.security_level, p.soundness_type, n_variables, next_rate,
                           log_next_eta, FieldSizeBits)
        total == usize_add(ood.value, num_queries, overflow_checks)
        query_error == rbr_queries(p.soundness_type, log_inv_rate, num_queries)
        combination_error ==
            rbr_soundness_queries_combination(p.soundness_type, FieldSizeBits, n_variables,
                                              next_rate, log_next_eta, total.value)
    IN  IF ood.panic THEN [panic |-> "ood_samples"]
        ELSE IF total.panic THEN [panic |-> "overflow"]
        ELSE [panic |-> NoPanic,
              next_rate |-> next_rate,
              round_config |->
                  [pow_bits |-> FloatMax(0, FloatSub(AsFloat(p.security_level),
                                                     FloatMin(query_error,
                                                              combination_error))),
                   folding_pow_bits |->
                       folding_pow_bits(p.security_level, p.soundness_type, FieldSizeBits,
                                        n_variables, next_rate, log_next_eta),
                   num_queries |-> num_queries,
                   ood_samples |-> ood.value,
                   log_inv_rate |-> next_rate]]

\* One iteration of the round loop of new: the RoundConfig pushed, or a panic.
RoundOf(p, protocol_security_level, n_variables, log_inv_rate, round, overflow_checks) ==
    LET next_rate == log_inv_rate + (at_round(p.folding_factor, round) - 1)
        log_next_eta == log_eta(p.soundness_type, next_rate)
        num_queries == queries(p.soundness_type, protocol_security_level, log_inv_rate)
        ood == ood_samples(p.security_level, p.soundness_type, n_variables, next_rate,
                           log_next_eta, FieldSizeBits)
        total == usize_add(ood.value, num_queries, overflow_checks)
        query_error == rbr_queries(p.soundness_type, log_inv_rate, num_queries)
        combination_error ==
            rbr_soundness_queries_combination(p.soundness_type, FieldSizeBits, n_variables,
                                              next_rate, log_next_eta, total.value)
    IN  IF ood.panic THEN [panic |-> "ood_samples"]
        ELSE IF total.panic THEN [panic |-> "overflow"]
        ELSE [panic |-> NoPanic,
              next_rate |-> next_rate,
              round_config |->
                  [pow_bits |-> FloatMax(0, FloatSub(AsFloat(p.security_level),
                                                     FloatMin(query_error,
                                                              combination_error))),
                   folding_pow_bits |->
                       folding_pow_bits(p.security_level, p.soundness_type, FieldSizeBits,
                                        n_variables, next_rate, log_next_eta),
                   num_queries |-> num_queries,
                   ood_samples |-> ood.value,
                   log_inv_rate |-> log_inv_rate]]

\* Mutant of RoundLoop: the range is 0..=num_rounds, one round too many.
RECURSIVE RoundLoop_inclusive(_, _, _, _, _, _, _, _)
RoundLoop_inclusive(p, protocol_security_level, num_rounds, round, n_variables, log_inv_rate, round_parameters, overflow_checks) ==
    IF round > num_rounds
    THEN [panic |-> NoPanic, round_parameters |-> round_parameters,
          log_inv_rate |-> log_inv_rate]
    ELSE LET r == RoundOf(p, protocol_security_level, n_variables, log_inv_rate, round,
                          overflow_checks)
         IN  IF r.panic # NoPanic THEN [panic |-> r.panic]
             ELSE RoundLoop_inclusive(p, protocol_security_level, num_rounds, round + 1,
                                      n_variables - at_round(p.folding_factor, round + 1),
                                      r.next_rate,
                                      Append(round_parameters, r.round_config),
                                      overflow_checks)

\* for round in 0..num_rounds { .. }: the round parameters and the final rate
RECURSIVE RoundLoop(_, _, _, _, _, _, _, _)
RoundLoop(p, protocol_security_level, num_rounds, round, n_variables, log_inv_rate, round_parameters, overflow_checks) ==
    IF round >= num_rounds
    THEN [panic |-> NoPanic, round_parameters |-> round_parameters,
          log_inv_rate |-> log_inv_rate]
    ELSE LET r == RoundOf(p, protocol_security_level, n_variables, log_inv_rate, round,
                          overflow_checks)
         IN  IF r.panic # NoPanic THEN [panic |-> r.panic]
             ELSE RoundLoop(p, protocol_security_level, num_rounds, round + 1,
                            n_variables - at_round(p.folding_factor, round + 1),
                            r.next_rate,
                            Append(round_parameters, r.round_config), overflow_checks)

NoConfig == [built |-> FALSE]

\* The body of new after the starting domain has been built.
Derive(mv, p, starting_domain, overflow_checks) ==
    LET protocol_security_level == saturating_sub(p.security_level, p.pow_bits)
        log_inv_rate == p.starting_log_inv_rate
        n_variables == mv.n_variables
        rounds == compute_number_of_rounds(p.folding_factor, n_variables)
        log_eta_start == log_eta(p.soundness_type, log_inv_rate)
        committment_ood_samples ==
            IF p.initial_statement
            THEN ood_samples(p.security_level, p.soundness_type, n_variables, log_inv_rate,
                             log_eta_start, FieldSizeBits)
            ELSE [panic |-> FALSE, value |-> 0]
        starting_folding_pow_bits ==
            IF p.initial_statement
            THEN folding_pow_bits(p.security_level, p.soundness_type, FieldSizeBits,
                                  n_variables, log_inv_rate, log_eta_start)
            ELSE LET prox_gaps_error ==
                         FloatAdd(rbr_soundness_fold_prox_gaps(p.soundness_type,
                                                               FieldSizeBits, n_variables,
                                                               log_inv_rate, log_eta_start),
                                  log2(at_round(p.folding_factor, 0)))
                 IN  FloatMax(FloatSub(AsFloat(p.security_level), prox_gaps_error), 0)
    IN  IF committment_ood_samples.panic THEN [panic |-> "ood_samples", config |-> NoConfig]
        ELSE LET loop == RoundLoop(p, protocol_security_level, rounds[1], 0,
                                   n_variables - at_round(p.folding_factor, 0),
                                   log_inv_rate, <<>>, overflow_checks)
             IN  IF loop.panic # NoPanic THEN [panic |-> loop.panic, config |-> NoConfig]
                 ELSE LET final_queries == queries(p.soundness_type, protocol_security_level,
                                                   loop.log_inv_rate)
                      IN  [panic |-> NoPanic,
                           config |->
                             [built |-> TRUE,
                              security_level |-> p.security_level,
                              max_pow_bits |-> p.pow_bits,
                              initial_statement |-> p.initial_statement,
                              committment_ood_samples |-> committment_ood_samples.value,
                              mv_parameters |-> mv,
                              starting_domain |-> starting_domain,
                              soundness_type |-> p.soundness_type,
                              starting_log_inv_rate |-> p.starting_log_inv_rate,
                              starting_folding_pow_bits |-> starting_folding_pow_bits,
                              folding_factor |-> p.folding_factor,
                              round_parameters |-> loop.round_parameters,
                              final_queries |-> final_queries,
                              final_pow_bits |->
                                  FloatMax(0, AsFloat(p.security_level)
                                              - rbr_queries(p.soundness_type,
                                                            loop.log_inv_rate, final_queries)),
                              final_sumcheck_rounds |-> rounds[2],
                              final_folding_pow_bits |->
                                  FloatMax(0, AsFloat(p.security_level)
                                              - AsFloat(FieldSizeBits - 1)),
                              final_log_inv_rate |-> loop.log_inv_rate]]

\* WhirConfig::new.  overflow_checks tells whether the build checks integer
\* arithmetic for overflow.
WhirConfig_new(mv, p, overflow_checks) ==
    IF ~check_validity(p.folding_factor, mv.n_variables)
    THEN [panic |-> "check_validity", config |-> NoConfig]
    ELSE LET starting_domain == Domain_new(Pow2(mv.n_variables), p.starting_log_inv_rate)
         IN  IF starting_domain = None THEN [panic |-> "starting_domain", config |-> NoConfig]
             ELSE Derive(mv, p, starting_domain, overflow_checks)

\* WhirConfig::n_rounds
n_rounds(cfg) == Len(cfg.round_parameters)

\* WhirConfig::check_pow_bits
check_pow_bits(cfg) ==
    LET max_bits == AsFloat(cfg.max_pow_bits)
    IN  IF \/ FloatGt(cfg.starting_folding_pow_bits, max_bits)
           \/ FloatGt(cfg.final_pow_bits, max_bits)
           \/ FloatGt(cfg.final_folding_pow_bits, max_bits)
        THEN FALSE
        ELSE \A i \in 1..Len(cfg.round_parameters) :
                /\ FloatLe(cfg.round_parameters[i].pow_bits, max_bits)
                /\ FloatLe(cfg.round_parameters[i].folding_pow_bits, max_bits)

(***************************************************************************)
(* WhirConfig: inputs and actions.                                         *)
(***************************************************************************)
\* default_whir_params() and MultivariateParameters::new(..) of the tests, with
\* the variable count and folding factors scaled down to the model's field
default_whir_params ==
    [initial_statement |-> TRUE, security_level |-> 100, pow_bits |-> 20,
     folding_factor |-> ConstantFromSecondRound(2, 2), soundness_type |-> "ConjectureList",
     starting_log_inv_rate |-> 1]
default_mv_params == [n_variables |-> 4]

FoldingChoices ==
    {Constant(0), Constant(1), Constant(2), Constant(3),
     ConstantFromSecondRound(2, 1), ConstantFromSecondRound(1, 2),
     ConstantFromSecondRound(3, 2), ConstantFromSecondRound(2, 2)}

WhirParametersChoices ==
    [initial_statement : BOOLEAN, security_level : {0, 20, 100, 1000}, pow_bits : {0, 20, 30},
     folding_factor : FoldingChoices, soundness_type : SoundnessType,
     starting_log_inv_rate : 0..MaxStartRate]

\* PoW bits a test writes into a config: below the cap of 20, at it, above it, NaN
PowBitsChoices == {195, 200, 205, NaN}

TestRound(pow_bits, fold_bits) ==
    [pow_bits |-> pow_bits, folding_pow_bits |-> fold_bits, num_queries |-> 5,
     ood_samples |-> 2, log_inv_rate |-> 3]

TestRoundChoices == {TestRound(a, b) : a \in PowBitsChoices, b \in PowBitsChoices}

NoCfgCall == [op |-> "none", args |-> <<>>, result |-> <<>>]

ConfigInit ==
    /\ config = NoConfig
    /\ cfgCall = NoCfgCall

WhirConfigNew(mv, p, overflow_checks) ==
    \E r \in {WhirConfig_new(mv, p, overflow_checks)} :
        /\ config' = r.config
        /\ cfgCall' = [op |-> "new", args |-> <<mv, p, overflow_checks>>, result |-> r.panic]

\* A test overwrites the PoW fields of the config built from the default parameters.
SetPowFields(max_pow_bits, starting, final, final_folding, rounds) ==
    /\ config' = [config EXCEPT !.max_pow_bits = max_pow_bits,
                                !.starting_folding_pow_bits = starting,
                                !.final_pow_bits = final,
                                !.final_folding_pow_bits = final_folding,
                                !.round_parameters = rounds]
    /\ cfgCall' = [op |-> "set_fields", args |-> <<>>, result |-> <<>>]

CheckPowBits ==
    /\ cfgCall' = [op |-> "check_pow_bits", args |-> <<cfgCall.op>>,
                   result |-> check_pow_bits(config)]
    /\ UNCHANGED config

OodSamples(security_level, soundness_type, n_variables, log_inv_rate, eta, field_size_bits) ==
    /\ cfgCall' = [op |-> "ood_samples",
                   args |-> <<security_level, soundness_type, n_variables, log_inv_rate, eta,
                              field_size_bits>>,
                   result |-> ood_samples(security_level, soundness_type, n_variables,
                                          log_inv_rate, eta, field_size_bits)]
    /\ UNCHANGED config

Queries(soundness_type, protocol_security_level, log_inv_rate) ==
    /\ cfgCall' = [op |-> "queries",
                   args |-> <<soundness_type, protocol_security_level, log_inv_rate>>,
                   result |-> queries(soundness_type, protocol_security_level, log_inv_rate)]
    /\ UNCHANGED config

\* log_eta arguments of a direct call: the value log_eta gives, other finite
\* values of both signs, and the non-finite values of f64
EtaChoices(soundness_type, log_inv_rate) ==
    {log_eta(soundness_type, log_inv_rate), -30, 20, 5000, NaN, Inf, NegInf}

FoldingPowBits(security_level, soundness_type, field_size_bits, n_variables, log_inv_rate, eta) ==
    /\ cfgCall' = [op |-> "folding_pow_bits",
                   args |-> <<security_level, soundness_type, field_size_bits, n_variables,
                              log_inv_rate, eta>>,
                   result |-> folding_pow_bits(security_level, soundness_type,
                                               field_size_bits, n_variables, log_inv_rate,
                                               eta)]
    /\ UNCHANGED config

WhirConfigNewStep ==
    /\ cfgCall.op = "none"
    /\ \E n \in 0..MaxNumVariables, p \in WhirParametersChoices, overflow_checks \in BOOLEAN :
           WhirConfigNew([n_variables |-> n], p, overflow_checks)
    /\ UNCHANGED <<sumcheckVars, separatorVars, domainVars>>

SetPowFieldsStep ==
    /\ cfgCall.op = "new" /\ config.built
    /\ cfgCall.args[1] = default_mv_params /\ cfgCall.args[2] = default_whir_params
    /\ \E a \in PowBitsChoices, b \in PowBitsChoices, c \in PowBitsChoices,
          rounds \in SeqsUpTo(TestRoundChoices, MaxRounds) :
           SetPowFields(20, a, b, c, rounds)
    /\ UNCHANGED <<sumcheckVars, separatorVars, domainVars>>

CheckPowBitsStep ==
    /\ cfgCall.op \in {"new", "set_fields"} /\ config.built
    /\ CheckPowBits
    /\ UNCHANGED <<sumcheckVars, separatorVars, domainVars>>

OodSamplesStep ==
    /\ cfgCall.op = "none"
    /\ \E s \in (0..MaxSecurity) \cup {1000}, t \in SoundnessType, n \in 0..MaxNumVariables,
          r \in 0..MaxRate, fixed_eta \in BOOLEAN, bits \in {FieldSizeBits, 31} :
           OodSamples(s, t, n, r, IF fixed_eta THEN 20 ELSE log_eta(t, r), bits)
    /\ UNCHANGED <<sumcheckVars, separatorVars, domainVars>>

FoldingPowBitsStep ==
    /\ cfgCall.op = "none"
    /\ \E s \in {0, 20, 100, 1000}, t \in SoundnessType, bits \in {FieldSizeBits, 64},
          n \in 0..MaxNumVariables, r \in 0..MaxRate :
           \E eta \in EtaChoices(t, r) : FoldingPowBits(s, t, bits, n, r, eta)
    /\ UNCHANGED <<sumcheckVars, separatorVars, domainVars>>

QueriesStep ==
    /\ cfgCall.op \in {"none", "queries"}
    /\ \E t \in SoundnessType, s \in 0..MaxSecurity, r \in 0..MaxRate : Queries(t, s, r)
    /\ UNCHANGED <<sumcheckVars, separatorVars, domainVars>>

(***************************************************************************)
(* Specifications: one per component.  Each leaves the other component's   *)
(* variables at their initial values.                                      *)
(***************************************************************************)
Init == SumcheckInit /\ SeparatorInit /\ DomainInit /\ ConfigInit

SumcheckNext == NewStep \/ AddNewEqualityStep \/ ComputeSumcheckPolynomialStep

SeparatorNext == AddOodStep \/ PowStep

SumcheckSpec == Init /\ [][SumcheckNext]_vars

SeparatorSpec == Init /\ [][SeparatorNext]_vars

DomainNext == DomainNewStep

DomainSpec == Init /\ [][DomainNext]_vars

ConfigNext ==
    \/ WhirConfigNewStep
    \/ SetPowFieldsStep
    \/ CheckPowBitsStep
    \/ OodSamplesStep
    \/ FoldingPowBitsStep
    \/ QueriesStep

ConfigSpec == Init /\ [][ConfigNext]_vars

ReduceSpecInit == ReduceInit /\ SeparatorInit /\ DomainInit /\ ConfigInit

ReduceNext == ComputeScheduledStep

ReduceSpec == ReduceSpecInit /\ [][ReduceNext]_vars

(***************************************************************************)
(* Reference definitions used by the properties: sums and products over    *)
(* index sets, computed in the integers and reduced once at the end.       *)
(***************************************************************************)
RECURSIVE SumFn(_)
SumFn(f) ==
    IF DOMAIN f = {} THEN 0
    ELSE LET x == CHOOSE x \in DOMAIN f : TRUE
         IN  f[x] + SumFn([y \in DOMAIN f \ {x} |-> f[y]])

RECURSIVE ProdFn(_)
ProdFn(f) ==
    IF DOMAIN f = {} THEN 1
    ELSE LET x == CHOOSE x \in DOMAIN f : TRUE
         IN  f[x] * ProdFn([y \in DOMAIN f \ {x} |-> f[y]])

\* sum over the hypercube of w(b) * p(b) (over the indices both tables have)
InnerProduct(w, p) == SumFn([b \in 1..Min(Len(w), Len(p)) |-> w[b] * p[b]]) % FieldOrder

\* eq_z at the 0-based hypercube index b
RefEq(z, b) ==
    ProdFn([j \in 1..Len(z) |->
              Bit(b, j, Len(z)) * z[j] + (1 - Bit(b, j, Len(z))) * (1 - z[j])])

\* the set bits of index i are among the set bits of index b (k variables)
SubsetBits(i, b, k) == \A j \in 1..k : Bit(i, j, k) <= Bit(b, j, k)

\* the index pairs (2i-1, 2i) present in both tables
PairIndices(p, w) == 1..(Min(Len(p), Len(w)) \div 2)
RefC0(p, w) == SumFn([i \in PairIndices(p, w) |-> p[2 * i - 1] * w[2 * i - 1]])
RefC2(p, w) ==
    SumFn([i \in PairIndices(p, w) |->
             (p[2 * i] - p[2 * i - 1]) * (w[2 * i] - w[2 * i - 1])])
RefC1(p, w, s) == s - 2 * RefC0(p, w) - RefC2(p, w)
RefS0(p, w, s) == RefC0(p, w)
RefS1(p, w, s) == RefC0(p, w) + RefC1(p, w, s) + RefC2(p, w)
RefS2(p, w, s) == RefS1(p, w, s) + RefC1(p, w, s) + RefC2(p, w) + 2 * RefC2(p, w)

IsCompute == call.op = "compute_sumcheck_polynomial"
IsAdd == call.op = "add_new_equality"
SameLengths(args) == Len(args[1]) = Len(args[2]) /\ Len(args[2]) = Len(args[3])

(***************************************************************************)
(* Properties of SumcheckSingle (SumcheckSpec).                            *)
(***************************************************************************)
\* C1: after new and after every add_new_equality, if every claimed value
\* absorbed so far is the polynomial's evaluation at its point, then sum is
\* the sum over the hypercube of weights[b] * evaluation_of_p[b].
C1_SumIsInnerProduct ==
    (pc # "start" /\ honest) => sum = InnerProduct(weights, evaluation_of_p)

C1_Witness ==
    /\ pc = "ready" /\ honest /\ IsAdd
    /\ Len(call.args[1]) = 2 /\ absorbed = 4
    /\ num_variables(evaluation_of_p) = 2 /\ Len(weights) = 4
    /\ sum # ZERO

\* C2: with at least one variable, compute_sumcheck_polynomial returns the
\* three values (c0, c0 + c1 + c2, S(1) + c1 + c2 + 2 * c2) where c0 and c2
\* are the sums over the pairs of p[2i] * w[2i] and of the products of the
\* pair differences, and c1 = sum - 2 * c0 - c2.
C2_ComputeReturnsEvaluations ==
    (IsCompute /\ num_variables(evaluation_of_p) >= 1) =>
        /\ Len(call.result) = 3
        /\ call.result[1] = RefS0(evaluation_of_p, weights, sum) % FieldOrder
        /\ call.result[2] = RefS1(evaluation_of_p, weights, sum) % FieldOrder
        /\ call.result[3] = RefS2(evaluation_of_p, weights, sum) % FieldOrder

C2_Witness ==
    /\ IsCompute /\ pc = "ready"
    /\ num_variables(evaluation_of_p) = 2 /\ Len(weights) = 4
    /\ Len(call.result) = 3
    /\ call.result[1] # ZERO
    /\ call.result[2] # call.result[1]
    /\ call.result[3] \notin {call.result[1], call.result[2]}

\* C3: for a polynomial with at least one variable and a statement without
\* constraints, new yields an all-zero weight table and sum 0, and
\* compute_sumcheck_polynomial returns (0, 0, 0).
C3_ZeroConstraints ==
    (pc # "start" /\ absorbed = 0 /\ adds = 0 /\ num_variables(evaluation_of_p) >= 1) =>
        /\ Len(weights) >= 1
        /\ \A b \in 1..Len(weights) : weights[b] = ZERO
        /\ sum = ZERO
        /\ IsCompute => call.result = <<ZERO, ZERO, ZERO>>

C3_Witness ==
    /\ IsCompute /\ absorbed = 0 /\ adds = 0
    /\ num_variables(evaluation_of_p) = 2 /\ Len(weights) = 4
    /\ call.result = <<ZERO, ZERO, ZERO>>

\* C4: add_new_equality with slices of equal length adds, for each index i,
\* rand_i * eq_{point_i}(b) to weights[b] for every b and rand_i * eval_i to
\* sum, and leaves evaluation_of_p (hence num_variables) unchanged.
C4_AddNewEqualityEffect ==
    [][(call'.op = "add_new_equality" /\ SameLengths(call'.args)) =>
          /\ pc' = "ready"
          /\ weights' = [b \in 1..Len(weights) |->
                            (weights[b]
                             + SumFn([i \in 1..Len(call'.args[1]) |->
                                        call'.args[2][i] * RefEq(call'.args[1][i], b - 1)]))
                            % FieldOrder]
          /\ sum' = (sum + SumFn([i \in 1..Len(call'.args[2]) |->
                                    call'.args[2][i] * call'.args[3][i]])) % FieldOrder
          /\ evaluation_of_p' = evaluation_of_p]_vars

C4_Witness ==
    /\ IsAdd /\ pc = "ready"
    /\ Len(call.args[1]) = 2
    /\ call.args[1][1] # call.args[1][2]
    /\ call.args[2] = <<1, 2>>
    /\ num_variables(evaluation_of_p) = 2 /\ Len(weights) = 4

\* C5: compute_sumcheck_polynomial has no effect but its return value: a call
\* leaves evaluation_of_p, weights and sum unchanged, prints nothing, and a
\* second call in a row returns the same polynomial.
C5_ComputeSideEffectFree ==
    [][call'.op = "compute_sumcheck_polynomial" =>
          /\ UNCHANGED <<evaluation_of_p, weights, sum>>
          /\ stdout' = stdout
          /\ IsCompute => call'.result = call.result]_vars

\* C6: add_new_equality with slices of different lengths panics and leaves
\* weights and sum as they were.
C6_MismatchedLengthsPanic ==
    [][(call'.op = "add_new_equality" /\ ~SameLengths(call'.args)) =>
          /\ pc' = "panicked"
          /\ UNCHANGED <<evaluation_of_p, weights, sum>>]_vars

C6_Witness ==
    /\ IsAdd /\ pc = "panicked"
    /\ Len(call.args[1]) = 2 /\ Len(call.args[2]) = 2 /\ Len(call.args[3]) = 1
    /\ absorbed = 2

\* C7: compute_sumcheck_polynomial on a polynomial with zero variables
\* panics and returns no polynomial.
C7_ZeroVariablesPanics ==
    (IsCompute /\ num_variables(evaluation_of_p) = 0) =>
        /\ pc = "panicked"
        /\ call.result = <<>>

C7_Witness ==
    /\ IsCompute /\ num_variables(evaluation_of_p) = 0
    /\ pc = "panicked" /\ sum # ZERO

\* C8: after new with combination coefficient 1, sum is the sum of the
\* claimed values of the statement's constraints, true or not.
C8_SumOfClaimedValues ==
    (call.op = "new" /\ call.args[3] = ONE) =>
        sum = SumFn([i \in 1..Len(call.args[2].constraints) |->
                       call.args[2].constraints[i].value]) % FieldOrder

C8_Witness ==
    /\ call.op = "new" /\ call.args[3] = ONE
    /\ Len(call.args[2].constraints) = 2
    /\ ~honest
    /\ sum # ZERO

\* C9: new stores the hypercube evaluation table of coeffs: the same length
\* 2^n, num_variables() = n, and entry b is the sum of the coefficients whose
\* index has its set bits among those of b.
C9_EvaluationTable ==
    pc # "start" =>
        /\ Len(evaluation_of_p) = Len(coeffs)
        /\ Pow2(num_variables(evaluation_of_p)) = Len(coeffs)
        /\ \A b \in 0..(Len(coeffs) - 1) :
              evaluation_of_p[b + 1] =
                  SumFn([i \in {i \in 0..(Len(coeffs) - 1) :
                                   SubsetBits(i, b, num_variables(coeffs))} |->
                           coeffs[i + 1]]) % FieldOrder

C9_Witness ==
    /\ pc = "ready"
    /\ coeffs = <<1, 2, 3, 4>>
    /\ evaluation_of_p = <<1, 3, 4, 0>>

(***************************************************************************)
(* Properties of the domain separator extensions (SeparatorSpec).          *)
(***************************************************************************)
\* C10: add_ood(num_samples) with num_samples > 0 appends exactly a challenge
\* slot of num_samples elements labelled "ood_query" and then a response slot
\* of num_samples elements labelled "ood_ans"; with num_samples = 0 the
\* pattern is unchanged.
C10_AddOod ==
    [][sepCall'.op = "add_ood" =>
          pattern' = IF sepCall'.arg > 0
                     THEN pattern \o
                          <<[kind |-> "challenge", count |-> sepCall'.arg, label |-> "ood_query"],
                            [kind |-> "response", count |-> sepCall'.arg, label |-> "ood_ans"]>>
                     ELSE pattern]_vars

C10_Witness ==
    /\ sepCall = [op |-> "add_ood", arg |-> 2]
    /\ Len(pattern) = 4
    /\ pattern[2].kind = "pow"
    /\ pattern[3] = [kind |-> "challenge", count |-> 2, label |-> "ood_query"]
    /\ pattern[4] = [kind |-> "response", count |-> 2, label |-> "ood_ans"]

\* C11: pow(bits) with bits > 0, fractional values below one bit included,
\* appends exactly one proof-of-work challenge entry labelled "pow_queries";
\* with bits <= 0 the returned pattern is identical to the input.
C11_Pow ==
    [][sepCall'.op = "pow" =>
          /\ (sepCall'.arg # NaN /\ sepCall'.arg > 0) =>
                 /\ Len(pattern') = Len(pattern) + 1
                 /\ SubSeq(pattern', 1, Len(pattern)) = pattern
                 /\ pattern'[Len(pattern')].kind = "pow"
                 /\ pattern'[Len(pattern')].label = "pow_queries"
          /\ (sepCall'.arg # NaN /\ sepCall'.arg <= 0) => pattern' = pattern]_vars

\* A fractional number of bits below one has just been declared after an OOD pair.
C11_Witness ==
    /\ sepCall = [op |-> "pow", arg |-> 5]
    /\ Len(pattern) = 4
    /\ pattern[2].label = "ood_query"
    /\ pattern[4] = [kind |-> "pow", count |-> 1, label |-> "pow_queries"]

IsPrefix(s, t) == Len(s) <= Len(t) /\ SubSeq(t, 1, Len(s)) = s

\* C12: the pattern is append-only under add_ood and pow: the pattern before a
\* call is a prefix of the pattern after it, and the pattern grows strictly
\* exactly when the call's argument is greater than zero.
C12_AppendOnly ==
    [][sepCall'.op \in {"add_ood", "pow"} =>
          /\ IsPrefix(pattern, pattern')
          /\ (Len(pattern') > Len(pattern)) <=> (sepCall'.arg # NaN /\ sepCall'.arg > 0)]_vars

\* An add_ood call has grown a pattern that already held a proof-of-work
\* entry and an OOD pair.
C12_Witness ==
    /\ sepCall = [op |-> "add_ood", arg |-> 1]
    /\ Len(pattern) = 6
    /\ pattern[2].kind = "pow"
    /\ pattern[3].label = "ood_query"
    /\ pattern[5] = [kind |-> "challenge", count |-> 1, label |-> "ood_query"]

\* The power of two that num_coeffs rounds up to, and the logarithm of a power
\* of two, stated without the code's loops.
RefNextPower(x) ==
    CHOOSE n \in {Pow2(k) : k \in 0..(TWO_ADICITY + 3)} : n >= x /\ (n = 1 \/ n \div 2 < x)
RefLog(n) == CHOOSE k \in 0..(TWO_ADICITY + 3) : Pow2(k) = n

\* a^e by repeated multiplication
RECURSIVE RefPow(_, _)
RefPow(a, e) == IF e = 0 THEN 1 ELSE (a * RefPow(a, e - 1)) % TwoAdicFieldOrder

\* C13: Radix2EvaluationDomain::new(num_coeffs) rounds num_coeffs up to the
\* next power of two n and returns None exactly when log2(n) exceeds the
\* two-adicity; otherwise the domain has size n and log_size_of_group log2(n).
\* A request of exactly 2^TWO_ADICITY succeeds, one of 2^(TWO_ADICITY+1) fails.
C13_DomainNew ==
    domCall >= 0 =>
        LET n == RefNextPower(domCall)
        IN  /\ (domain = None) <=> (RefLog(n) > TWO_ADICITY)
            /\ domain # None => (domain.size = n /\ domain.log_size_of_group = RefLog(n))
            /\ domCall = Pow2(TWO_ADICITY) => domain # None
            /\ domCall = Pow2(TWO_ADICITY + 1) => domain = None

\* A request just above the largest size has been rounded up and refused.
C13_Witness ==
    /\ domCall = Pow2(TWO_ADICITY) + 1
    /\ domain = None

\* C14: the generator of every domain returned by new has multiplicative
\* order exactly its size n: group_gen^n = 1, no smaller positive power is 1,
\* and in particular group_gen^(n/2) # 1 for n >= 2.
C14_GeneratorOrder ==
    domain # None =>
        /\ RefPow(domain.group_gen, domain.size) = 1
        /\ domain.size >= 2 => RefPow(domain.group_gen, domain.size \div 2) # 1
        /\ \A k \in 1..(domain.size - 1) : RefPow(domain.group_gen, k) # 1

\* A domain of 16 elements has been built from a request that is not a power of two.
C14_Witness ==
    /\ domCall = 9
    /\ domain # None
    /\ domain.size = 16
    /\ domain.group_gen # 1

\* C15: every domain returned by new has consistent derived fields: the size
\* times its inverse is one, the generator times its inverse is one, and the
\* coset is the trivial one.
C15_DerivedFields ==
    domain # None =>
        /\ domain.size_as_field_element = domain.size % TwoAdicFieldOrder
        /\ (domain.size_as_field_element * domain.size_inv) % TwoAdicFieldOrder = 1
        /\ (domain.group_gen * domain.group_gen_inv) % TwoAdicFieldOrder = 1
        /\ domain.offset = 1 /\ domain.offset_inv = 1 /\ domain.offset_pow_size = 1
        /\ (domain.offset * domain.offset_inv) % TwoAdicFieldOrder = 1
        /\ domain.offset_pow_size = RefPow(domain.offset, domain.size)

\* The largest domain has been built: its generator and its size are not their own inverses.
C15_Witness ==
    /\ domCall = Pow2(TWO_ADICITY)
    /\ domain # None
    /\ domain.size = 64
    /\ domain.group_gen_inv # domain.group_gen
    /\ domain.size_inv # domain.size_as_field_element

\* x <= cap on f64: false when x is NaN
WithinCap(x, cap) == x # NaN /\ x <= 10 * cap

RefRbrOodSample(a, k) ==
    10 * (k * a[6]) + 10 - (2 * list_size_bits(a[2], a[3], a[4], a[5]) + 10 * (a[3] * k))

\* C17: for ProvableList and ConjectureList, ood_samples returns the smallest k
\* in 1..63 whose rbr_ood_sample = k*field_size_bits + 1 - (2*list_size_bits +
\* num_variables*k) is >= security_level: the returned k meets the bound, no
\* smaller positive count does, and 0 is never returned.
C17_OodSamplesSmallest ==
    (cfgCall.op = "ood_samples" /\ cfgCall.args[2] # "UniqueDecoding") =>
        LET a == cfgCall.args
            k == cfgCall.result.value
        IN  IF cfgCall.result.panic
            THEN \A j \in 1..63 : RefRbrOodSample(a, j) < 10 * a[1]
            ELSE /\ k \in 1..63
                 /\ rbr_ood_sample(a[2], a[3], a[4], a[5], a[6], k) = RefRbrOodSample(a, k)
                 /\ RefRbrOodSample(a, k) >= 10 * a[1]
                 /\ \A j \in 1..(k - 1) : RefRbrOodSample(a, j) < 10 * a[1]

\* A search that had to go past the first counts has returned.
C17_Witness ==
    /\ cfgCall.op = "ood_samples"
    /\ cfgCall.args[2] = "ConjectureList"
    /\ ~cfgCall.result.panic
    /\ cfgCall.result.value >= 5

\* C18: under UniqueDecoding ood_samples returns 0 whatever the other
\* arguments, so committment_ood_samples and every round's ood_samples of a
\* UniqueDecoding WhirConfig built by new are 0.
C18_UniqueDecodingNoOod ==
    /\ (cfgCall.op = "ood_samples" /\ cfgCall.args[2] = "UniqueDecoding") =>
           (~cfgCall.result.panic /\ cfgCall.result.value = 0)
    /\ (cfgCall.op = "new" /\ config.built /\ config.soundness_type = "UniqueDecoding") =>
           /\ config.committment_ood_samples = 0
           /\ \A i \in 1..Len(config.round_parameters) :
                  config.round_parameters[i].ood_samples = 0

\* A UniqueDecoding config with an initial statement and two rounds has been built.
C18_Witness ==
    /\ cfgCall.op = "new"
    /\ config.built
    /\ config.soundness_type = "UniqueDecoding"
    /\ config.initial_statement
    /\ config.security_level = 100
    /\ Len(config.round_parameters) = 2

RefRoundVars(mv, p, i) ==
    mv.n_variables - p.folding_factor.first - i * p.folding_factor.factor
RefRoundRate(p, i) ==
    p.starting_log_inv_rate + (p.folding_factor.first - 1) + i * (p.folding_factor.factor - 1)
RefSearchFails(p, nv, rate) ==
    /\ p.soundness_type # "UniqueDecoding"
    /\ \A k \in 1..63 :
           RefRbrOodSample(<<p.security_level, p.soundness_type, nv, rate,
                             log_eta(p.soundness_type, rate), FieldSizeBits>>, k)
               < 10 * p.security_level
RefScheduleInvalid(mv, p) == ~check_validity(p.folding_factor, mv.n_variables)
RefDomainFails(mv, p) == mv.n_variables + p.starting_log_inv_rate > TWO_ADICITY
RefOodExhausted(mv, p) ==
    \/ p.initial_statement /\ RefSearchFails(p, mv.n_variables, p.starting_log_inv_rate)
    \/ \E i \in 0..(compute_number_of_rounds(p.folding_factor, mv.n_variables)[1] - 1) :
           RefSearchFails(p, RefRoundVars(mv, p, i), RefRoundRate(p, i))
RefConstructionFails(mv, p) ==
    \/ RefScheduleInvalid(mv, p)
    \/ RefDomainFails(mv, p)
    \/ RefOodExhausted(mv, p)

WhirConfigFields ==
    {"built", "security_level", "max_pow_bits", "initial_statement",
     "committment_ood_samples", "mv_parameters", "starting_domain", "soundness_type",
     "starting_log_inv_rate", "starting_folding_pow_bits", "folding_factor",
     "round_parameters", "final_queries", "final_pow_bits", "final_sumcheck_rounds",
     "final_folding_pow_bits", "final_log_inv_rate"}

\* C20: WhirConfig::new is all-or-nothing: if the folding schedule is invalid
\* for num_variables, or the starting domain cannot be built, or an OOD-sample
\* search finds no count in 1..63, construction panics and no config is
\* returned; when none of these occur a fully populated config is returned.
C20_AllOrNothing ==
    cfgCall.op = "new" =>
        IF RefConstructionFails(cfgCall.args[1], cfgCall.args[2])
        THEN cfgCall.result # NoPanic /\ config = NoConfig
        ELSE /\ cfgCall.result = NoPanic
             /\ config.built
             /\ DOMAIN config = WhirConfigFields


\* C21: for every WhirConfig that new has just built, n_rounds() is the length of
\* round_parameters, and both are the number of folding rounds that
\* compute_number_of_rounds gives for the folding factor and the variable count.
C21_RoundCount ==
    (cfgCall.op = "new" /\ config.built) =>
        /\ n_rounds(config) = Len(config.round_parameters)
        /\ n_rounds(config) =
               compute_number_of_rounds(config.folding_factor,
                                        config.mv_parameters.n_variables)[1]

C21_Witness ==
    /\ cfgCall.op = "new" /\ config.built
    /\ n_rounds(config) = 2
    /\ config.folding_factor.kind = "ConstantFromSecondRound"
    /\ config.final_sumcheck_rounds = 1


NonNegative(x) == FloatGe(x, 0)

\* C22: in every WhirConfig that new has just built no proof-of-work quantity is
\* negative (starting_folding_pow_bits, each round's pow_bits and folding_pow_bits,
\* final_pow_bits, final_folding_pow_bits), and a direct call of folding_pow_bits
\* returns a value >= 0 for every input, non-finite log_eta included.
C22_PowNonNegative ==
    /\ (cfgCall.op = "new" /\ config.built) =>
           /\ NonNegative(config.starting_folding_pow_bits)
           /\ NonNegative(config.final_pow_bits)
           /\ NonNegative(config.final_folding_pow_bits)
           /\ \A i \in 1..Len(config.round_parameters) :
                  /\ NonNegative(config.round_parameters[i].pow_bits)
                  /\ NonNegative(config.round_parameters[i].folding_pow_bits)
    /\ cfgCall.op = "folding_pow_bits" => NonNegative(cfgCall.result)

\* A direct call whose difference security_level - error is NaN, clamped to zero.
C22_Witness ==
    /\ cfgCall.op = "folding_pow_bits"
    /\ cfgCall.args[2] = "ConjectureList" /\ cfgCall.args[6] = NaN
    /\ cfgCall.result = 0


\* The security, in tenths of a bit, that q queries deliver at a rate, as the
\* spec states it per regime; the UniqueDecoding value in millionths.
RefDelivers(t, rate, q, level) ==
    CASE t = "UniqueDecoding" -> q * NegLog2HalfOnePlusRate(rate) >= level * 1000000
      [] t = "ProvableList"   -> q * rate >= 2 * level
      [] t = "ConjectureList" -> q * rate >= level
\* q is the query count for a protocol security level at a rate: the least
\* count that delivers the level, or the saturated cast at rate 0.
RefIsQueryCount(t, level, rate, q) ==
    IF rate = 0
    THEN q = (IF t # "UniqueDecoding" /\ level > 0 THEN USIZE_MAX ELSE 0)
    ELSE RefDelivers(t, rate, q, level) /\ (q = 0 \/ ~RefDelivers(t, rate, q - 1, level))
\* k is the OOD sample count for a security level: 0 for UniqueDecoding, else the
\* least k >= 1 whose rbr_ood_sample reaches the level.
RefIsOodCount(t, level, nv, rate, k) ==
    IF t = "UniqueDecoding" THEN k = 0
    ELSE LET a == <<level, t, nv, rate, log_eta(t, rate), FieldSizeBits>>
         IN  /\ k >= 1
             /\ RefRbrOodSample(a, k) >= 10 * level
             /\ k = 1 \/ RefRbrOodSample(a, k - 1) < 10 * level
RefProtocolLevel(p) ==
    IF p.security_level - p.pow_bits > 0 THEN p.security_level - p.pow_bits ELSE 0
RefPreRate(p, i) == IF i = 0 THEN p.starting_log_inv_rate ELSE RefRoundRate(p, i - 1)

\* C23: new computes every query count (each round's num_queries, final_queries)
\* from protocol_security_level = max(security_level - pow_bits, 0) without
\* wrap-around; when pow_bits >= security_level and the starting rate is >= 1
\* every query count is 0; the OOD sample counts and the final PoW bits are
\* computed from the full security_level.
C23_ProtocolSecurityLevel ==
    (cfgCall.op = "new" /\ config.built) =>
        LET mv == cfgCall.args[1]
            p == cfgCall.args[2]
            t == p.soundness_type
            n == Len(config.round_parameters)
        IN  /\ \A i \in 1..n :
                   /\ RefIsQueryCount(t, RefProtocolLevel(p), RefPreRate(p, i - 1),
                                      config.round_parameters[i].num_queries)
                   /\ RefIsOodCount(t, p.security_level, RefRoundVars(mv, p, i - 1),
                                    RefRoundRate(p, i - 1),
                                    config.round_parameters[i].ood_samples)
            /\ RefIsQueryCount(t, RefProtocolLevel(p), RefPreRate(p, n), config.final_queries)
            /\ (p.pow_bits >= p.security_level /\ p.starting_log_inv_rate >= 1) =>
                   /\ config.final_queries = 0
                   /\ \A i \in 1..n : config.round_parameters[i].num_queries = 0
            /\ p.initial_statement =>
                   RefIsOodCount(t, p.security_level, mv.n_variables,
                                 p.starting_log_inv_rate, config.committment_ood_samples)
            /\ config.final_folding_pow_bits =
                   (IF p.security_level > FieldSizeBits - 1
                    THEN 10 * (p.security_level - (FieldSizeBits - 1)) ELSE 0)
            /\ config.final_pow_bits =
                   (LET delivered == rbr_queries(t, RefPreRate(p, n), config.final_queries)
                    IN  IF 10 * p.security_level > delivered
                        THEN 10 * p.security_level - delivered ELSE 0)

\* pow_bits above a positive security level: no queries at all, yet OOD samples
\* and PoW bits for the full level.
C23_Witness ==
    /\ cfgCall.op = "new" /\ config.built
    /\ cfgCall.args[2].pow_bits > cfgCall.args[2].security_level
    /\ cfgCall.args[2].security_level > 0
    /\ cfgCall.args[2].starting_log_inv_rate >= 1
    /\ Len(config.round_parameters) >= 1
    /\ config.round_parameters[1].num_queries = 0
    /\ config.round_parameters[1].ood_samples >= 1
    /\ config.final_queries = 0
    /\ config.final_pow_bits > 0


\* starting_log_inv_rate + sum over j < k of (folding_factor.at_round(j) - 1)
RECURSIVE RefRateAfter(_, _)
RefRateAfter(p, k) ==
    IF k = 0 THEN p.starting_log_inv_rate
    ELSE RefRateAfter(p, k - 1) + (at_round(p.folding_factor, k - 1) - 1)

\* C24: in a config that new has just built, round i records the rate before its
\* fold, starting_log_inv_rate + sum over j < i of (at_round(j) - 1); its
\* num_queries is computed at that rate and its ood_samples and folding_pow_bits
\* at the rate after the fold; final_log_inv_rate is the sum over all rounds; and
\* the rates never decrease from round to round.
C24_RateSchedule ==
    (cfgCall.op = "new" /\ config.built) =>
        LET mv == cfgCall.args[1]
            p == cfgCall.args[2]
            t == p.soundness_type
            rp == config.round_parameters
            n == Len(rp)
        IN  /\ \A i \in 0..(n - 1) :
                   LET pre == RefRateAfter(p, i)
                       post == RefRateAfter(p, i + 1)
                       nv == RefRoundVars(mv, p, i)
                   IN  /\ rp[i + 1].log_inv_rate = pre
                       /\ rp[i + 1].num_queries = queries(t, RefProtocolLevel(p), pre)
                       /\ rp[i + 1].ood_samples =
                              ood_samples(p.security_level, t, nv, post, log_eta(t, post),
                                          FieldSizeBits).value
                       /\ rp[i + 1].folding_pow_bits =
                              folding_pow_bits(p.security_level, t, FieldSizeBits, nv, post,
                                               log_eta(t, post))
                       /\ pre <= post
            /\ config.final_log_inv_rate = RefRateAfter(p, n)
            /\ \A i \in 1..(n - 1) : rp[i].log_inv_rate <= rp[i + 1].log_inv_rate
            /\ n >= 1 => /\ config.starting_log_inv_rate <= rp[1].log_inv_rate
                         /\ rp[n].log_inv_rate <= config.final_log_inv_rate

\* Two rounds whose rates rise strictly, so that the rate before and the rate
\* after a fold give different query counts.
C24_Witness ==
    /\ cfgCall.op = "new" /\ config.built
    /\ Len(config.round_parameters) = 2
    /\ config.round_parameters[1].log_inv_rate < config.round_parameters[2].log_inv_rate
    /\ config.round_parameters[2].log_inv_rate < config.final_log_inv_rate
    /\ config.round_parameters[1].num_queries > config.round_parameters[2].num_queries
    /\ config.round_parameters[2].num_queries > config.final_queries


C25_ReductionOrderIndependent ==
    (IsCompute /\ call.args # <<>> /\ pc = "ready") =>
        LET c == ReducePairs(chunks_exact2(evaluation_of_p), chunks_exact2(weights),
                             <<ZERO, ZERO>>, 1)
        IN  call.result = SumcheckEvals(c[1], c[2], sum)

\* Four pairs taken in reverse by three workers, the partial results combined
\* from the right.
C25_Witness ==
    /\ IsCompute /\ call.args # <<>> /\ pc = "ready"
    /\ call.args[1].order = <<4, 3, 2, 1>>
    /\ call.args[1].cuts = {1, 3}
    /\ call.args[1].tree = "right"
    /\ call.result[1] # ZERO /\ call.result[3] # ZERO


\* C26: in every state of a SumcheckSingle, after new and after any
\* add_new_equality calls, weights and evaluation_of_p have the same length
\* 2^n for n = num_variables(), also when the Statement handed to new was
\* created with another variable count than coeffs has.
C26_TablesSameLength ==
    pc # "start" =>
        /\ Len(weights) = Len(evaluation_of_p)
        /\ Len(weights) = Pow2(num_variables(evaluation_of_p))


\* C27: in every state with num_variables >= 1 the polynomial that
\* compute_sumcheck_polynomial returns satisfies S(0) + S(1) = sum, whether or
\* not the claimed values absorbed so far are true.
C27_SumRule ==
    (IsCompute /\ num_variables(evaluation_of_p) >= 1) =>
        (call.result[1] + call.result[2]) % FieldOrder = sum

\* A false claimed value has been absorbed: sum is not the inner product of the
\* two tables, and the returned polynomial still obeys the rule.
C27_Witness ==
    /\ IsCompute /\ pc = "ready" /\ ~honest
    /\ num_variables(evaluation_of_p) = 2 /\ Len(weights) = 4
    /\ sum # InnerProduct(weights, evaluation_of_p)
    /\ call.result[1] # ZERO /\ sum # ZERO


\* h(x) = sum over the pairs i of (p[2i] + x * (p[2i+1] - p[2i])) *
\* (w[2i] + x * (w[2i+1] - w[2i])), reduced into the field
RefH(p, w, x) ==
    SumFn([i \in PairIndices(p, w) |->
              (p[2 * i - 1] + x * (p[2 * i] - p[2 * i - 1]))
              * (w[2 * i - 1] + x * (w[2 * i] - w[2 * i - 1]))]) % FieldOrder

\* C28: when sum is the inner product of weights and evaluation_of_p, the three
\* values compute_sumcheck_polynomial returns are h(0), h(1), h(2) for the
\* polynomial h that leaves the variable of the lowest index bit free; when sum
\* differs from the inner product, S(1) differs from h(1).
C28_ReferencePolynomial ==
    (IsCompute /\ num_variables(evaluation_of_p) >= 1) =>
        IF sum = InnerProduct(weights, evaluation_of_p)
        THEN call.result = <<RefH(evaluation_of_p, weights, 0),
                             RefH(evaluation_of_p, weights, 1),
                             RefH(evaluation_of_p, weights, 2)>>
        ELSE call.result[2] # RefH(evaluation_of_p, weights, 1)


\* The entries of the sequence q taken in the order o, and a stretch of q.
Permuted(q, o) == [i \in 1..Len(o) |-> q[o[i]]]
Stretch(q, from, to) == [i \in 1..(to - from + 1) |-> q[from + i - 1]]

\* C29: add_new_equality does not depend on order or batching: a call that
\* absorbs a list of (point, rand, eval) triples leaves the weights and sum that
\* absorbing any permutation of the triples leaves, in one call or split at any
\* place into two consecutive calls; a call with three empty slices changes
\* nothing.
C29_OrderAndBatching ==
    [][(call'.op = "add_new_equality" /\ SameLengths(call'.args)) =>
          \A a \in {call'.args} :
              /\ \A o \in PermsOf(1..Len(a[1])) :
                     \A ps \in {Permuted(a[1], o)}, rs \in {Permuted(a[2], o)},
                        es \in {Permuted(a[3], o)} :
                         \A j \in 0..Len(ps) :
                             \A first \in {add_new_equality(self, Stretch(ps, 1, j),
                                                            Stretch(rs, 1, j),
                                                            Stretch(es, 1, j))} :
                                 \A second \in {add_new_equality(first.self,
                                                                 Stretch(ps, j + 1, Len(ps)),
                                                                 Stretch(rs, j + 1, Len(ps)),
                                                                 Stretch(es, j + 1, Len(ps)))} :
                                     /\ ~first.panic /\ ~second.panic
                                     /\ second.self.weights = weights'
                                     /\ second.self.sum = sum'
                                     /\ second.self.evaluation_of_p = evaluation_of_p'
              /\ Len(a[1]) = 0 => UNCHANGED <<evaluation_of_p, weights, sum>>]_vars

\* Two different triples absorbed into a table that already holds a constraint.
C29_Witness ==
    /\ IsAdd /\ pc = "ready"
    /\ Len(call.args[1]) = 2
    /\ call.args[1][1] # call.args[1][2]
    /\ call.args[2][1] # call.args[2][2]
    /\ call.args[3][1] # call.args[3][2]
    /\ absorbed = 3
    /\ Len(weights) = 4

====
